---- MODULE Spec2Model ----
(***************************************************************************)
(* auto-secret: a Kubernetes controller that keeps a Secret in step with   *)
(* an AutoSecret object (entry name -> generation kind).                   *)
(*                                                                         *)
(* The model covers reconcile (src/main.rs), the helpers of src/prelude.rs *)
(* and the controller wiring of main().  The Secret lives in the API       *)
(* server; patch_secret writes it by a forced server-side apply under the  *)
(* field manager "autosecrets.webstep.no", so every annotation and every   *)
(* data key of the stored Secret carries the set of managers that own it.  *)
(***************************************************************************)
EXTENDS Integers, Sequences, FiniteSets, TLC

(***************************************************************************)
(* Bounds of the model.                                                    *)
(***************************************************************************)
\* generated values that can be told apart; a reconcile draws the first ones
\* that occur nowhere in the state, so the number is never exhausted
MaxValues == 8
\* writes to the cluster by anyone but the controller: updates of an
\* AutoSecret and writes of a Secret by other clients, taken together
MaxWrites == 2
\* the same, where a single entry is declared and written
MaxEntryWrites == 3
\* the same, in the control loop over both AutoSecrets
MaxLoopWrites == 2
\* updates of an AutoSecret, where the process runs from start to end
MaxRunWrites == 1
\* the same, where the shutdown is followed to its end
MaxStopWrites == 1
\* failed reconciles in a row that are told apart
MaxRetries == 2

(***************************************************************************)
(* Names.                                                                  *)
(***************************************************************************)
\* AutoSecret objects (namespace/name) the controller watches
Keys == {"k1", "k2"}
\* entry names that occur in `secrets` and as data keys of the Secret
EntryNames == {"a", "b"}
\* enum AutoSecretType
AutoSecretType == {"uuid", "ulid"}

\* the field manager of patch_secret, and any other client of the API server
FIELD_MANAGER == "autosecrets.webstep.no"
OTHER_MANAGER == "other"

\* Strings are sequences of tokens, so that prefixing and starts_with are
\* computed rather than assumed.
ANNOTATION_PREFIX == <<"autosecrets.webstep.no/">>

annotation_name(name) == ANNOTATION_PREFIX \o <<name>>

starts_with(k, prefix) ==
  /\ Len(k) >= Len(prefix)
  /\ SubSeq(k, 1, Len(prefix)) = prefix

\* an annotation some other tool keeps on the Secret
ForeignAnnotations == {<<"other.io/", "a">>}

\* a data key some other tool keeps in the Secret; no AutoSecret declares it
ForeignNames == {"c"}

AnnotationKeys == {annotation_name(n) : n \in EntryNames} \cup ForeignAnnotations

(***************************************************************************)
(* Finite maps.                                                            *)
(***************************************************************************)
EmptyMap == [x \in {} |-> 0]

Restrict(f, S) == [x \in S \cap DOMAIN f |-> f[x]]

\* BTreeMap::remove
MapRemove(f, k) == Restrict(f, DOMAIN f \ {k})

\* BTreeMap::insert
MapInsert(f, k, v) == [x \in DOMAIN f \cup {k} |-> IF x = k THEN v ELSE f[x]]

(***************************************************************************)
(* Values.  Every value is a pair <<tag, number>>.                         *)
(***************************************************************************)
\* #[derive(Hash)] of a field-less enum feeds the variant's discriminant
Discriminant(conf) == IF conf = "uuid" THEN 0 ELSE 1

\* hash: the hex digest of the discriminant; distinct variants give distinct
\* digests, and a digest is not the kind it was computed from
hash(value) == <<"seahash", Discriminant(value)>>

\* AutoSecretType::generate: a value of the kind's format.  Uuid::new_v4 and
\* Ulid::new return a value that occurs nowhere yet: n is a number no value
\* of the state carries.
generate(conf, n) == <<conf, n>>

\* the numbers of the generated values among the values of a map
Numbers(m) == {m[x][2] : x \in {y \in DOMAIN m : m[y][1] \in AutoSecretType}}

Unused(used) == CHOOSE n \in 1..MaxValues : n \notin used /\ \A m \in 1..(n - 1) : m \in used

\* what another client writes: a digest of either kind or junk for an
\* managed annotation, junk for any other, opaque bytes for a data key
ExternalAnnotation(key) ==
  IF key \in ForeignAnnotations THEN {<<"ext", 0>>}
  ELSE {hash(c) : c \in AutoSecretType}
ExternalDataValues == {<<"ext", 1>>}

(***************************************************************************)
(* The Secret as reconcile holds it: annotations and data, both maps.      *)
(***************************************************************************)
\* Secret { metadata.name, metadata.owner_references, ..Default::default() }
DefaultSecret == [annotations |-> EmptyMap, data |-> EmptyMap]

\* get_secret's Option<Secret>
NoSecret == [some |-> FALSE, annotations |-> EmptyMap, data |-> EmptyMap]

\* the Secret of the API server: every annotation and every data key holds
\* its value and the managers owning it (metadata.managedFields); owned tells
\* that metadata.owner_references names the AutoSecret
AbsentObject ==
  [exists |-> FALSE, owned |-> FALSE, annotations |-> EmptyMap, data |-> EmptyMap]

Values(m) == [x \in DOMAIN m |-> m[x].val]

\* Api::get_opt: the stored object without its bookkeeping, or None
get_secret(object) ==
  IF object.exists
  THEN [some |-> TRUE, annotations |-> Values(object.annotations),
        data |-> Values(object.data)]
  ELSE NoSecret

\* get_secret_or_default without the retain of lines 144-147: every annotation
\* of the Secret read is copied
get_secret_or_default_unfiltered(existing_secret) ==
  IF existing_secret.some
  THEN [annotations |-> existing_secret.annotations,
        data |-> existing_secret.data]
  ELSE DefaultSecret

\* reconcile, lines 133-153: the Secret to submit starts from the stored
\* one, keeping its data and its prefixed annotations only
\* (ClientExt::get_secret_or_default of prelude.rs is the same code)
get_secret_or_default(existing_secret) ==
  IF existing_secret.some
  THEN [annotations |->
          Restrict(existing_secret.annotations,
                   {k \in DOMAIN existing_secret.annotations :
                      starts_with(k, ANNOTATION_PREFIX)}),
        data |-> existing_secret.data]
  ELSE DefaultSecret

\* to_remove with the filter inverted: the declared names
to_remove_declared(secrets, secret) ==
  {name \in DOMAIN secret.data : name \in DOMAIN secrets}

\* reconcile, lines 155-159: the names to remove are the data keys the
\* AutoSecret does not declare
to_remove(secrets, secret) ==
  {name \in DOMAIN secret.data : name \notin DOMAIN secrets}

remove_secret(secret, name) ==
  [annotations |-> MapRemove(secret.annotations, annotation_name(name)),
   data |-> MapRemove(secret.data, name)]

\* reconcile, lines 161-163
RECURSIVE remove_all(_, _)
remove_all(secret, names) ==
  IF names = {} THEN secret
  ELSE LET name == CHOOSE n \in names : TRUE
       IN remove_all(remove_secret(secret, name), names \ {name})

\* SecretExt::retain of prelude.rs: removes the names the filter selects,
\* and tells whether there were any
retain(secret, selected) ==
  LET names == {n \in DOMAIN secret.data : n \in selected}
  IN [secret |-> remove_all(secret, names), modified |-> names # {}]

\* SecretExt::secret_status of prelude.rs
secret_status(secret, name, spec) ==
  LET an == annotation_name(name)
  IN IF an \notin DOMAIN secret.annotations THEN "Missing"
     ELSE IF secret.annotations[an] = hash(spec) THEN "Matches"
     ELSE "Outdated"

\* check_secret with the comparison of the digests lost: it never skips
check_secret_never_skips(st, name, conf) ==
  [secret |->
     [annotations |-> MapInsert(st.secret.annotations, annotation_name(name),
                                hash(conf)),
      data |-> MapInsert(st.secret.data, name, generate(conf, Unused(st.used)))],
   used |-> st.used \cup {Unused(st.used)},
   calls |-> Append(st.calls, name)]

\* check_secret that skips whenever the entry has an annotation at all
check_secret_skips_any(st, name, conf) ==
  IF annotation_name(name) \in DOMAIN st.secret.annotations
  THEN st
  ELSE check_secret_never_skips(st, name, conf)

\* check_secret that sets the annotation and leaves the value to later
check_secret_tag_only(st, name, conf) ==
  IF annotation_name(name) \in DOMAIN st.secret.annotations
     /\ st.secret.annotations[annotation_name(name)] = hash(conf)
  THEN st
  ELSE [st EXCEPT !.secret.annotations =
                    MapInsert(@, annotation_name(name), hash(conf))]

\* check_secret.  st holds the Secret being built, the numbers of the values
\* in use, and the names generate was called for.
check_secret(st, name, conf) ==
  LET an == annotation_name(name)
      actual_hash == hash(conf)
      annotations == st.secret.annotations
  IN IF an \in DOMAIN annotations /\ annotations[an] = actual_hash
     THEN st
     ELSE [secret |->
             [annotations |-> MapInsert(annotations, an, actual_hash),
              data |-> MapInsert(st.secret.data, name,
                                 generate(conf, Unused(st.used)))],
           used |-> st.used \cup {Unused(st.used)},
           calls |-> Append(st.calls, name)]

\* reconcile, lines 165-167: `secrets` is a HashMap, visited in some order
RECURSIVE check_all(_, _, _)
check_all(st, secrets, order) ==
  IF order = <<>> THEN st
  ELSE check_all(check_secret(st, Head(order), secrets[Head(order)]),
                 secrets, Tail(order))

Orders(S) ==
  {o \in [1..Cardinality(S) -> S] : \A i, j \in DOMAIN o : i # j => o[i] # o[j]}

\* a reconcile that forgets the removals when it comes to the writes
build_secret_no_removals(secrets, existing_secret, used, order) ==
  check_all([secret |-> get_secret_or_default(existing_secret),
             used |-> used, calls |-> <<>>], secrets, order)

\* reconcile, lines 142-167: everything between get_secret and patch_secret
build_secret(secrets, existing_secret, used, order) ==
  LET secret == get_secret_or_default(existing_secret)
      removed == remove_all(secret, to_remove(secrets, secret))
  IN check_all([secret |-> removed, used |-> used, calls |-> <<>>],
               secrets, order)

(***************************************************************************)
(* The API server.                                                         *)
(***************************************************************************)
\* One map of the object under a forced server-side apply by FIELD_MANAGER:
\* a key of the applied map takes the applied value and is owned by the
\* applier (other owners keep a share only of an equal value); a key left
\* out loses the applier as owner and goes when no owner remains.
apply_map(old, applied) ==
  LET kept == {k \in DOMAIN old : old[k].owners # {FIELD_MANAGER}} \ DOMAIN applied
  IN [k \in DOMAIN applied \cup kept |->
        IF k \in DOMAIN applied
        THEN [val |-> applied[k],
              owners |-> IF k \in DOMAIN old /\ old[k].val = applied[k]
                         THEN old[k].owners \cup {FIELD_MANAGER}
                         ELSE {FIELD_MANAGER}]
        ELSE [val |-> old[k].val, owners |-> old[k].owners \ {FIELD_MANAGER}]]

\* patch_secret: Patch::Apply with PatchParams::apply(..).force(); creates
\* the object when there is none
patch_secret(object, secret) ==
  [exists |-> TRUE,
   owned |-> TRUE,
   annotations |-> apply_map(object.annotations, secret.annotations),
   data |-> apply_map(object.data, secret.data)]

\* another client updates one key of a map: it owns what it changes
update_map(old, k, v) ==
  MapInsert(old, k,
            [val |-> v,
             owners |-> IF k \in DOMAIN old /\ old[k].val = v
                        THEN old[k].owners \cup {OTHER_MANAGER}
                        ELSE {OTHER_MANAGER}])

\* another client deletes one key of a map
delete_key(old, k) == MapRemove(old, k)

(***************************************************************************)
(* The controller (kube::runtime::Controller as main() wires it).          *)
(***************************************************************************)
\* no reconcile is scheduled for the key
NotScheduled == -1

\* enum ControllerError
MissingObjectKey(field) == <<"MissingObjectKey", field>>
SecretGetFailed == <<"SecretGetFailed">>
SecretApplyFailed == <<"SecretApplyFailed">>

\* ObjectMeta of an AutoSecret: which of namespace, name and uid are Some
Metadata == [namespace : BOOLEAN, name : BOOLEAN, uid : BOOLEAN]
FullMetadata == [namespace |-> TRUE, name |-> TRUE, uid |-> TRUE]

\* Resource::controller_owner_ref: Some when the object has a name and a uid
controller_owner_ref(metadata) == metadata.name /\ metadata.uid

\* a reconcile that does not look at the metadata
identity_unchecked(metadata) == [result |-> "Ok", error |-> <<>>]

\* reconcile, lines 117-132: namespace, then name, by ok_or(..)?; then
\* controller_owner_ref(&()).unwrap(), which panics on None
identity(metadata) ==
  IF ~metadata.namespace
  THEN [result |-> "Err", error |-> MissingObjectKey(".metadata.namespace")]
  ELSE IF ~metadata.name
  THEN [result |-> "Err", error |-> MissingObjectKey(".metadata.name")]
  ELSE IF ~controller_owner_ref(metadata)
  THEN [result |-> "Panic", error |-> <<>>]
  ELSE [result |-> "Ok", error |-> <<>>]

\* error_policy: Action::requeue(Duration::from_secs(15))
RequeueSeconds == 15

\* an error_policy that waits longer for a Secret it could not read
error_policy_by_kind(error) ==
  IF error = SecretGetFailed THEN RequeueSeconds + RequeueSeconds
  ELSE RequeueSeconds

error_policy(error) == RequeueSeconds

\* an Ok that asks for a requeue
await_change_requeue == RequeueSeconds

\* Action::await_change(): no requeue
await_change == NotScheduled

\* a scheduler whose entry takes the time asked last
Schedule_latest(p, after) == after

\* the scheduler keeps one entry per object, with the earliest time asked
Schedule(p, after) ==
  IF after = NotScheduled THEN p
  ELSE IF p = NotScheduled THEN after
  ELSE IF after < p THEN after ELSE p

\* a runner that starts whatever is due
CanStart_always(inflight) == TRUE

\* the runner starts a reconcile of an object only while none is running
CanStart(inflight) == inflight = <<>>

\* futures::channel::mpsc::channel(0) and its one Sender, reload_tx: the
\* channel holds buffer + senders messages
ReloadBuffer == 0
ReloadSenders == 1
ReloadCapacity == ReloadBuffer + ReloadSenders

\* a try_send that queues whatever it is given
try_send_unbounded(queued) == queued + 1

\* Sender::try_send, its Err(full) ignored by `let _ =`: the number of
\* messages queued after the call
try_send(queued) == IF queued < ReloadCapacity THEN queued + 1 ELSE queued

\* the secrets maps an AutoSecret may hold
AllSecrets == UNION {[S -> AutoSecretType] : S \in SUBSET EntryNames}

\* a reconcile that was started: it resolved namespace and name and called
\* get_secret, which has not returned yet
NewRun(resource) ==
  [pc |-> "get", resource |-> resource, existing |-> NoSecret,
   secret |-> DefaultSecret, removed |-> {}, calls |-> <<>>, raced |-> FALSE,
   store |-> <<"get">>]

NotSettled ==
  [valid |-> FALSE, resource |-> EmptyMap, raced |-> FALSE, quiet |-> FALSE]

NoLast ==
  [valid |-> FALSE, resource |-> EmptyMap, existing |-> NoSecret,
   secret |-> DefaultSecret, removed |-> {}, calls |-> <<>>, raced |-> FALSE,
   store |-> <<>>, before |-> AbsentObject, prior |-> NotSettled]

NoFailure ==
  [valid |-> FALSE, error |-> <<>>, action |-> NotScheduled, store |-> <<>>,
   before |-> AbsentObject]

RemoveAt(q, i) == [j \in 1..(Len(q) - 1) |-> IF j < i THEN q[j] ELSE q[j + 1]]

VARIABLES
  autosecrets,  \* Api<AutoSecret>: per key, the object, its metadata and its
                \* spec.secrets
  objects,      \* Api<Secret>: per key, the stored Secret
  pending,      \* the scheduler: per key, seconds until its reconcile is due
  runs,         \* the runner: per key, the reconciles in flight
  last,         \* per key, the reconcile that returned Ok in the step just
                \* taken: what it was given, read and submitted
  failure,      \* per key, the reconcile that returned Err in the step just
                \* taken: its error, what error_policy answered, the calls to
                \* the API server it made, and the Secret as it was
  settled,      \* per key, the spec.secrets of the last reconcile that returned
                \* Ok, whether another client wrote the Secret while it ran
                \* (raced), and whether none has written it since (quiet)
  retries,      \* per key, the reconciles that returned Err in a row, counted
                \* up to `counted`
  counted,      \* how far retries counts
  reload,       \* the messages queued in the channel of reload_tx / reload_rx
  phase,        \* "running", "stopping" after the shutdown signal,
                \* "terminated" when run() has ended, "crashed" after a panic
  writes,       \* writes to the cluster by anyone but the controller, so far
  limit         \* how many of them the behaviour may hold

vars ==
  <<autosecrets, objects, pending, runs, last, failure, settled, retries,
    counted, reload, phase, writes, limit>>

\* the process besides the scheduler and the runner
process == <<retries, counted, reload, phase>>

\* the watcher lists the existing AutoSecrets at start, which schedules each
InitWith(existing, initial, max) ==
  /\ autosecrets \in
       {f \in [Keys -> [exists : BOOLEAN, metadata : {FullMetadata},
                        secrets : initial]] :
          \A k \in Keys : /\ f[k].exists = (k \in existing)
                          /\ (k \notin existing => f[k].secrets = EmptyMap)}
  /\ objects = [k \in Keys |-> AbsentObject]
  /\ pending = [k \in Keys |-> IF k \in existing THEN 0 ELSE NotScheduled]
  /\ runs = [k \in Keys |-> <<>>]
  /\ last = [k \in Keys |-> NoLast]
  /\ failure = [k \in Keys |-> NoFailure]
  /\ settled = [k \in Keys |-> NotSettled]
  /\ retries = [k \in Keys |-> 0]
  /\ counted = 0
  /\ reload = 0
  /\ phase = "running"
  /\ writes = 0
  /\ limit = max

\* the numbers of the generated values the state holds anywhere
InUse ==
  UNION {Numbers(Values(objects[k].data)) \cup Numbers(last[k].existing.data)
           \cup Numbers(last[k].secret.data)
           \cup Numbers(Values(last[k].before.data))
           \cup UNION {Numbers(runs[k][i].existing.data)
                         \cup Numbers(runs[k][i].secret.data) :
                       i \in DOMAIN runs[k]} : k \in Keys}

Forget ==
  /\ last' = [k \in Keys |-> NoLast]
  /\ failure' = [k \in Keys |-> NoFailure]

\* the trigger streams end with the shutdown signal: what they ask for is
\* scheduled only while the controller runs
Admit(p, after) == IF phase = "running" THEN Schedule(p, after) ELSE p

\* one more reconcile of the key returned Err
Failed(k, error, store) ==
  /\ failure' = [j \in Keys |->
                   IF j # k THEN NoFailure
                   ELSE [valid |-> TRUE, error |-> error,
                         action |-> error_policy(error), store |-> store,
                         before |-> objects[k]]]
  /\ retries' = [retries EXCEPT ![k] = IF @ < counted THEN @ + 1 ELSE @]
  /\ last' = [j \in Keys |-> NoLast]

\* a runner that goes on starting what is due after the shutdown signal
Due_while_stopping(k) ==
  /\ phase \in {"running", "stopping"}
  /\ autosecrets[k].exists
  /\ pending[k] = 0
  /\ CanStart(runs[k])

\* the object is due and none of its reconciles is running
Due(k) ==
  /\ phase = "running"
  /\ autosecrets[k].exists
  /\ pending[k] = 0
  /\ CanStart(runs[k])

\* the runner takes a due object off the scheduler and calls reconcile with
\* the object as the reflector holds it at that moment; reconcile runs up to
\* its first await, the call of get_secret
StartReconcile(k) ==
  /\ Due(k)
  /\ identity(autosecrets[k].metadata).result = "Ok"
  /\ runs' = [runs EXCEPT ![k] = Append(@, NewRun(autosecrets[k].secrets))]
  /\ pending' = [pending EXCEPT ![k] = NotScheduled]
  /\ Forget
  /\ UNCHANGED <<autosecrets, objects, settled, writes, limit, process>>

\* the same for an object without namespace or name: reconcile returns
\* Err(MissingObjectKey) before its first await
StartFailed(k) ==
  /\ Due(k)
  /\ identity(autosecrets[k].metadata).result = "Err"
  /\ LET error == identity(autosecrets[k].metadata).error
     IN /\ pending' = [pending EXCEPT ![k] =
                         Schedule(NotScheduled, error_policy(error))]
        /\ Failed(k, error, <<>>)
  /\ UNCHANGED <<autosecrets, objects, runs, settled, counted, reload, phase,
                 writes, limit>>

\* the same for an object with namespace and name and no uid: unwrap panics
\* in the task that polls the controller, and the process ends
StartPanics(k) ==
  /\ Due(k)
  /\ identity(autosecrets[k].metadata).result = "Panic"
  /\ phase' = "crashed"
  /\ runs' = [j \in Keys |-> <<>>]
  /\ pending' = [j \in Keys |-> NotScheduled]
  /\ Forget
  /\ UNCHANGED <<autosecrets, objects, settled, retries, counted, reload,
                 writes, limit>>

\* reconcile up to the call of patch_secret: get_secret returned Ok
GetSecret(k, i, order) ==
  /\ i \in DOMAIN runs[k]
  /\ runs[k][i].pc = "get"
  /\ order \in Orders(DOMAIN runs[k][i].resource)
  /\ LET r == runs[k][i]
         existing == get_secret(objects[k])
         built == build_secret(r.resource, existing, InUse, order)
     IN runs' = [runs EXCEPT ![k][i] =
                   [pc |-> "patch", resource |-> r.resource,
                    existing |-> existing, secret |-> built.secret,
                    removed |-> to_remove(r.resource,
                                          get_secret_or_default(existing)),
                    calls |-> built.calls, raced |-> FALSE,
                    store |-> Append(r.store, "apply")]]
  /\ Forget
  /\ UNCHANGED <<autosecrets, objects, pending, settled, writes, limit, process>>

\* the call of the API server a reconcile waits for returns Err, and so does
\* reconcile (SecretGetFailed or SecretApplyFailed): nothing is written, and
\* the controller asks error_policy when to try again
ReconcileFailed(k, i) ==
  /\ i \in DOMAIN runs[k]
  /\ LET error == IF runs[k][i].pc = "get" THEN SecretGetFailed
                  ELSE SecretApplyFailed
     IN /\ pending' = [pending EXCEPT ![k] = Schedule(@, error_policy(error))]
        /\ Failed(k, error, runs[k][i].store)
  /\ runs' = [runs EXCEPT ![k] = RemoveAt(@, i)]
  /\ UNCHANGED <<autosecrets, objects, settled, counted, reload, phase,
                 writes, limit>>

\* patch_secret returned Ok, reconcile returns Ok(Action::await_change());
\* a Secret that changed reaches the controller through .owns(secrets)
PatchSecret(k, i) ==
  /\ i \in DOMAIN runs[k]
  /\ runs[k][i].pc = "patch"
  /\ LET r == runs[k][i]
         after == patch_secret(objects[k], r.secret)
     IN /\ objects' = [objects EXCEPT ![k] = after]
        /\ last' = [j \in Keys |->
                      IF j # k THEN NoLast
                      ELSE [valid |-> TRUE, resource |-> r.resource,
                            existing |-> r.existing, secret |-> r.secret,
                            removed |-> r.removed, calls |-> r.calls,
                            raced |-> r.raced, store |-> r.store,
                            before |-> objects[k], prior |-> settled[k]]]
        /\ settled' = [settled EXCEPT ![k] =
                         [valid |-> TRUE, resource |-> r.resource,
                          raced |-> r.raced, quiet |-> TRUE]]
        /\ pending' = [pending EXCEPT ![k] =
                         Admit(Schedule(@, await_change),
                               IF after # objects[k] THEN 0 ELSE NotScheduled)]
  /\ runs' = [runs EXCEPT ![k] = RemoveAt(@, i)]
  /\ failure' = [j \in Keys |-> NoFailure]
  /\ retries' = [retries EXCEPT ![k] = 0]
  /\ UNCHANGED <<autosecrets, counted, reload, phase, writes, limit>>

\* the AutoSecret is updated: the watcher reports it
SpecChange(k, secrets) ==
  /\ autosecrets[k].exists
  /\ writes < limit
  /\ secrets # autosecrets[k].secrets
  /\ writes' = writes + 1
  /\ autosecrets' = [autosecrets EXCEPT ![k].secrets = secrets]
  /\ pending' = [pending EXCEPT ![k] = Admit(@, 0)]
  /\ Forget
  /\ UNCHANGED <<objects, runs, settled, limit, process>>

\* another client wrote the Secret: the reconciles of the key that already
\* read it now hold a stale copy, and the owner is scheduled if the Secret
\* names one (patch_secret sets owner_references)
Edited(k, object) ==
  /\ writes < limit
  /\ object # objects[k]
  /\ writes' = writes + 1
  /\ objects' = [objects EXCEPT ![k] = object]
  /\ runs' = [runs EXCEPT ![k] =
                [j \in DOMAIN @ |->
                   IF @[j].pc = "patch" THEN [@[j] EXCEPT !.raced = TRUE]
                   ELSE @[j]]]
  /\ settled' = [settled EXCEPT ![k].quiet = FALSE]
  /\ pending' = [pending EXCEPT ![k] =
                   IF objects[k].owned THEN Admit(@, 0) ELSE @]
  /\ Forget
  /\ UNCHANGED <<autosecrets, limit, process>>

ExternalSetAnnotation(k, key, v) ==
  /\ autosecrets[k].exists
  /\ Edited(k, [objects[k] EXCEPT !.exists = TRUE,
                                  !.annotations = update_map(@, key, v)])

ExternalSetData(k, name, v) ==
  /\ autosecrets[k].exists
  /\ Edited(k, [objects[k] EXCEPT !.exists = TRUE,
                                  !.data = update_map(@, name, v)])

ExternalDeleteAnnotation(k, key) ==
  /\ key \in DOMAIN objects[k].annotations
  /\ Edited(k, [objects[k] EXCEPT !.annotations = delete_key(@, key)])

ExternalDeleteData(k, name) ==
  /\ name \in DOMAIN objects[k].data
  /\ Edited(k, [objects[k] EXCEPT !.data = delete_key(@, name)])

\* <enter> on stdin: the thread of main() reads a line and calls try_send
Press ==
  /\ phase \in {"running", "stopping"}
  /\ reload' = try_send(reload)
  /\ Forget
  /\ UNCHANGED <<autosecrets, objects, pending, runs, settled, retries, counted,
                 phase, writes, limit>>

\* reconcile_all_on: the controller takes a message off reload_rx and
\* schedules every object of the reflector
ReloadAll ==
  /\ phase = "running"
  /\ reload > 0
  /\ reload' = reload - 1
  /\ pending' = [k \in Keys |->
                   IF autosecrets[k].exists THEN Schedule(pending[k], 0)
                   ELSE pending[k]]
  /\ Forget
  /\ UNCHANGED <<autosecrets, objects, runs, settled, retries, counted, phase,
                 writes, limit>>

\* the requeue delay of a key runs out
RetryTimer(k) ==
  /\ phase \in {"running", "stopping"}
  /\ pending[k] > 0
  /\ pending' = [pending EXCEPT ![k] = 0]
  /\ Forget
  /\ UNCHANGED <<autosecrets, objects, runs, settled, writes, limit, process>>

\* shutdown_on_signal: SIGTERM or ctrl-c arrives
Signal ==
  /\ phase = "running"
  /\ phase' = "stopping"
  /\ Forget
  /\ UNCHANGED <<autosecrets, objects, pending, runs, settled, retries, counted,
                 reload, writes, limit>>

\* the stream of run() ends when no reconcile is in flight any more, and
\* main() returns
Terminate ==
  /\ phase = "stopping"
  /\ \A k \in Keys : runs[k] = <<>>
  /\ phase' = "terminated"
  /\ Forget
  /\ UNCHANGED <<autosecrets, objects, pending, runs, settled, retries, counted,
                 reload, writes, limit>>

(***************************************************************************)
(* Spec: one AutoSecret and its Secret, with every spec.secrets and every  *)
(* write of another client; reconciles that return Ok.                     *)
(***************************************************************************)
\* the maps to start from: one of each shape, up to the names of the entries
\* and of the kinds
InitialSecrets ==
  {f \in AllSecrets : /\ "b" \in DOMAIN f => "a" \in DOMAIN f
                      /\ "a" \in DOMAIN f => f["a"] = "uuid"}

Init == InitWith({"k1"}, InitialSecrets, MaxWrites)

Reconciling ==
  \/ \E k \in Keys : StartReconcile(k)
  \/ \E k \in Keys, i \in 1..2, order \in UNION {Orders(S) : S \in SUBSET EntryNames} :
       GetSecret(k, i, order)
  \/ \E k \in Keys, i \in 1..2 : PatchSecret(k, i)

Writes(input, names, keys) ==
  \/ \E k \in Keys, secrets \in input : SpecChange(k, secrets)
  \/ \E k \in Keys, key \in keys :
       \E v \in ExternalAnnotation(key) : ExternalSetAnnotation(k, key, v)
  \/ \E k \in Keys, name \in names, v \in ExternalDataValues :
       ExternalSetData(k, name, v)
  \/ \E k \in Keys, key \in keys : ExternalDeleteAnnotation(k, key)
  \/ \E k \in Keys, name \in names : ExternalDeleteData(k, name)

Next ==
  \/ Reconciling
  \/ Writes(AllSecrets, EntryNames \cup ForeignNames, AnnotationKeys)

Spec == Init /\ [][Next]_vars

(***************************************************************************)
(* SpecEntry: one AutoSecret that declares the entry "a" or nothing, and   *)
(* other clients that write the annotation and the value of "a"; longer    *)
(* behaviours than Spec has.                                               *)
(***************************************************************************)
EntrySecrets == UNION {[S -> AutoSecretType] : S \in SUBSET {"a"}}

InitEntry == InitWith({"k1"}, EntrySecrets, MaxEntryWrites)

NextEntry ==
  \/ Reconciling
  \/ Writes(EntrySecrets, {"a"}, {annotation_name("a")})

SpecEntry == InitEntry /\ [][NextEntry]_vars

(***************************************************************************)
(* SpecLoop: the control loop over both AutoSecrets, with reconciles that  *)
(* fail, the requeue after error_policy's delay, <enter> on stdin, updates *)
(* of the AutoSecrets and other clients that delete the value of "a".      *)
(***************************************************************************)
LoopSecrets == UNION {[S -> {"uuid"}] : S \in SUBSET {"a"}}

InitLoop == InitWith(Keys, LoopSecrets, MaxLoopWrites)

NextLoop ==
  \/ Reconciling
  \/ \E k \in Keys, i \in 1..2 : ReconcileFailed(k, i)
  \/ \E k \in Keys : RetryTimer(k)
  \/ Press
  \/ ReloadAll
  \/ \E k \in Keys, secrets \in LoopSecrets : SpecChange(k, secrets)
  \/ \E k \in Keys : ExternalDeleteData(k, "a")

SpecLoop == InitLoop /\ [][NextLoop]_vars

(***************************************************************************)
(* SpecRun: the process from its start to its end.  Both AutoSecrets; the  *)
(* second may lack namespace, name or uid.  Reconciles fail with every     *)
(* ControllerError, failures in a row are counted, and the shutdown signal *)
(* arrives at any moment.                                                  *)
(***************************************************************************)
InitRun ==
  /\ autosecrets \in
       {f \in [Keys -> [exists : {TRUE}, metadata : Metadata,
                        secrets : LoopSecrets]] :
          f["k1"].metadata = FullMetadata}
  /\ objects = [k \in Keys |-> AbsentObject]
  /\ pending = [k \in Keys |-> 0]
  /\ runs = [k \in Keys |-> <<>>]
  /\ last = [k \in Keys |-> NoLast]
  /\ failure = [k \in Keys |-> NoFailure]
  /\ settled = [k \in Keys |-> NotSettled]
  /\ retries = [k \in Keys |-> 0]
  /\ counted = MaxRetries
  /\ reload = 0
  /\ phase = "running"
  /\ writes = 0
  /\ limit = MaxRunWrites

NextRun ==
  \/ Reconciling
  \/ \E k \in Keys : StartFailed(k)
  \/ \E k \in Keys : StartPanics(k)
  \/ \E k \in Keys, i \in 1..2 : ReconcileFailed(k, i)
  \/ \E k \in Keys : RetryTimer(k)
  \/ \E k \in Keys, secrets \in LoopSecrets : SpecChange(k, secrets)
  \/ Signal
  \/ Terminate

SpecRun == InitRun /\ [][NextRun]_vars

(***************************************************************************)
(* SpecStop: the shutdown.  Both AutoSecrets, reconciles that fail, and    *)
(* the signal at any moment; a call of the API server returns in the end,  *)
(* Ok or Err, and the stream of run() is polled.                           *)
(***************************************************************************)
InitStop == InitWith(Keys, LoopSecrets, MaxStopWrites)

NextStop ==
  \/ Reconciling
  \/ \E k \in Keys, i \in 1..2 : ReconcileFailed(k, i)
  \/ \E k \in Keys : RetryTimer(k)
  \/ \E k \in Keys, secrets \in LoopSecrets : SpecChange(k, secrets)
  \/ Signal
  \/ Terminate

SpecStop ==
  /\ InitStop
  /\ [][NextStop]_vars
  /\ \A k \in Keys :
       WF_vars(\E i \in 1..2 :
                 \/ \E order \in UNION {Orders(S) : S \in SUBSET EntryNames} :
                      GetSecret(k, i, order)
                 \/ PatchSecret(k, i)
                 \/ ReconcileFailed(k, i))
  /\ WF_vars(Terminate)

(***************************************************************************)
(* Properties of one reconcile.  last[k] describes the reconcile of k that *)
(* returned Ok in the step just taken, so objects[k] is the Secret as that *)
(* reconcile left it and last[k].before the Secret as patch_secret met it. *)
(***************************************************************************)
Done(k) == last[k].valid

\* no other client wrote the Secret between get_secret and patch_secret
Clean(k) == Done(k) /\ ~last[k].raced

\* the names whose value generate produced in that reconcile
ToWrite(k) == {last[k].calls[i] : i \in DOMAIN last[k].calls}

ToRemove(k) == last[k].removed

Prefixed(annotations) ==
  {key \in DOMAIN annotations : starts_with(key, ANNOTATION_PREFIX)}

\* a map holds the same under a key as another: both nothing or the same value
SameAt(m1, m2, x) ==
  /\ (x \in DOMAIN m1) = (x \in DOMAIN m2)
  /\ x \in DOMAIN m1 => m1[x] = m2[x]

\* C1: a reconcile leaves every annotation without the prefix, and every
\* value whose name has no prefixed annotation, in the Secret as it was.
C1_ForeignIsolation ==
  \A k \in Keys :
    Clean(k) =>
      LET before == last[k].before
          after == objects[k]
      IN /\ \A key \in DOMAIN before.annotations \ Prefixed(before.annotations) :
              /\ key \in DOMAIN after.annotations
              /\ after.annotations[key].val = before.annotations[key].val
         /\ \A name \in DOMAIN before.data :
              annotation_name(name) \notin DOMAIN before.annotations =>
                /\ name \in DOMAIN after.data
                /\ after.data[name].val = before.data[name].val

\* C2: after a reconcile that returned Ok every declared entry has, in the
\* Secret, the digest of its kind as annotation and a value under its name.
C2_EveryEntryExists ==
  \A k \in Keys :
    Done(k) =>
      \A name \in DOMAIN last[k].resource :
        /\ annotation_name(name) \in DOMAIN objects[k].annotations
        /\ objects[k].annotations[annotation_name(name)].val
             = hash(last[k].resource[name])
        /\ name \in DOMAIN objects[k].data

C4_KindChange ==
  \A k \in Keys :
    Done(k) =>
      \A name \in DOMAIN last[k].resource :
        LET an == annotation_name(name)
            conf == last[k].resource[name]
            read == last[k].existing
        IN (an \in DOMAIN read.annotations /\ read.annotations[an] # hash(conf)) =>
             /\ name \in ToWrite(k)
             /\ objects[k].annotations[an].val = hash(conf)
             /\ name \in DOMAIN objects[k].data
             /\ objects[k].data[name].val[1] = conf
             /\ \A other \in DOMAIN read.data :
                  read.data[other] # objects[k].data[name].val
             /\ \A other \in DOMAIN last[k].before.data :
                  last[k].before.data[other].val # objects[k].data[name].val

\* "a" was written as uuid by an earlier reconcile and is now declared ulid
C4_Witness ==
  \E k \in Keys :
    /\ Done(k)
    /\ "a" \in DOMAIN last[k].resource
    /\ last[k].resource["a"] = "ulid"
    /\ annotation_name("a") \in DOMAIN last[k].existing.annotations
    /\ last[k].existing.annotations[annotation_name("a")] = hash("uuid")
    /\ "a" \in DOMAIN last[k].existing.data
    /\ last[k].existing.data["a"][1] = "uuid"
    /\ last[k].before.data["a"].owners = {FIELD_MANAGER}

\* C5: when the reconcile before declared "a" and "b" and this one declares
\* "b" as before and "a" no longer (no other client writing the Secret while
\* either of them ran, nor owning what the Secret holds for "a", and "b"
\* still carrying the digest of its kind), the annotation and the value of "a" are
\* gone from the Secret, and the annotation and value of "b", the
\* annotations without the prefix and the values of undeclared names without
\* a prefixed annotation are as they were.
C5_RemovalExact ==
  \A k \in Keys :
    LET now == last[k].resource
        then == last[k].prior.resource
        before == last[k].before
        after == objects[k]
    IN (/\ Clean(k)
        /\ last[k].prior.valid
        /\ ~last[k].prior.raced
        /\ {"a", "b"} \subseteq DOMAIN then
        /\ DOMAIN now = DOMAIN then \ {"a"}
        /\ now["b"] = then["b"]
        /\ annotation_name("b") \in DOMAIN before.annotations
        /\ before.annotations[annotation_name("b")].val = hash(now["b"])
        /\ \A key \in DOMAIN before.annotations \cap {annotation_name("a")} :
             before.annotations[key].owners = {FIELD_MANAGER}
        /\ \A name \in DOMAIN before.data \cap {"a"} :
             before.data[name].owners = {FIELD_MANAGER}) =>
         /\ annotation_name("a") \notin DOMAIN after.annotations
         /\ "a" \notin DOMAIN after.data
         /\ SameAt(Values(after.annotations), Values(before.annotations),
                   annotation_name("b"))
         /\ SameAt(Values(after.data), Values(before.data), "b")
         /\ \A key \in DOMAIN before.annotations \ Prefixed(before.annotations) :
              SameAt(Values(after.annotations), Values(before.annotations), key)
         /\ \A name \in DOMAIN before.data \ {"a", "b"} :
              annotation_name(name) \notin DOMAIN before.annotations =>
                SameAt(Values(after.data), Values(before.data), name)

\* C6: a declared entry whose annotation, as read, is the digest of its kind
\* is neither written nor removed: the Secret submitted holds for it what
\* was read, and the Secret holds for it after the patch what it held
\* before, when no other client wrote in between.
C6_MatchingUntouched ==
  \A k \in Keys :
    Done(k) =>
      \A name \in DOMAIN last[k].resource :
        LET an == annotation_name(name)
            read == last[k].existing
        IN (an \in DOMAIN read.annotations
            /\ read.annotations[an] = hash(last[k].resource[name])) =>
             /\ name \notin ToWrite(k)
             /\ name \notin ToRemove(k)
             /\ SameAt(last[k].secret.annotations, read.annotations, an)
             /\ SameAt(last[k].secret.data, read.data, name)
             /\ Clean(k) =>
                  /\ SameAt(Values(objects[k].annotations),
                            Values(last[k].before.annotations), an)
                  /\ SameAt(Values(objects[k].data),
                            Values(last[k].before.data), name)

\* "a" is left alone in a reconcile that writes "b" and removes "c"
C6_Witness ==
  \E k \in Keys :
    /\ Clean(k)
    /\ "a" \in DOMAIN last[k].resource
    /\ annotation_name("a") \in DOMAIN last[k].existing.annotations
    /\ last[k].existing.annotations[annotation_name("a")]
         = hash(last[k].resource["a"])
    /\ "a" \in DOMAIN objects[k].data
    /\ "b" \in ToWrite(k)
    /\ "c" \in ToRemove(k)

\* C7: in the Secret as a reconcile leaves it (no other client writing the
\* Secret while it ran), every name with a prefixed
\* annotation has a value, and every name whose value the reconcile
\* submitted has a prefixed annotation.
C7_TagsMatchValues ==
  \A k \in Keys :
    Clean(k) =>
      /\ \A name \in EntryNames \cup ForeignNames :
           annotation_name(name) \in DOMAIN objects[k].annotations =>
             name \in DOMAIN objects[k].data
      /\ \A name \in DOMAIN last[k].secret.data :
           annotation_name(name) \in DOMAIN objects[k].annotations

(***************************************************************************)
(* Properties of the control loop.                                         *)
(***************************************************************************)
InFlight(k) == runs[k] # <<>>

\* the step is a change the controller is told of for k: its AutoSecret is
\* updated, or another client writes the Secret that names it as owner
ChangeEvent(k) ==
  \/ autosecrets'[k] # autosecrets[k]
  \/ objects[k].owned /\ objects'[k] # objects[k] /\ writes' # writes

\* C8: no key ever has more than one reconcile in flight.
C8_SingleFlight == \A k \in Keys : Len(runs[k]) <= 1

\* both keys reconcile at once, and each has a further reconcile due that
\* has not been started
C8_Witness ==
  \A k \in Keys : Len(runs[k]) = 1 /\ pending[k] = 0

\* C9: a change that arrives for a key while its reconcile is in flight
\* starts no reconcile and leaves one due; the one due is still due when the
\* reconcile in flight ends; and a reconcile that starts is given the
\* spec.secrets of that moment and leaves none due.
C9_Coalescing ==
  [][\A k \in Keys :
       /\ (InFlight(k) /\ ChangeEvent(k)) =>
            /\ pending'[k] = 0
            /\ Len(runs'[k]) = Len(runs[k])
       /\ (InFlight(k) /\ pending[k] = 0 /\ runs'[k] = <<>>) => pending'[k] = 0
       /\ Len(runs'[k]) > Len(runs[k]) =>
            /\ pending'[k] = NotScheduled
            /\ runs'[k][Len(runs'[k])].resource = autosecrets'[k].secrets]_vars

\* a reconcile in flight during which the AutoSecret was updated and
\* another client wrote the Secret: two changes, one reconcile due
C9_Witness ==
  \E k \in Keys :
    /\ InFlight(k)
    /\ objects[k].owned
    /\ runs[k][1].raced
    /\ runs[k][1].resource # autosecrets[k].secrets
    /\ pending[k] = 0

\* the key is idle: nothing in flight, nothing due, and the last reconcile
\* returned Ok for the spec.secrets of now with no write to the Secret since
Converged(k) ==
  /\ autosecrets[k].exists
  /\ ~InFlight(k)
  /\ pending[k] = NotScheduled
  /\ settled[k].valid
  /\ settled[k].quiet
  /\ settled[k].resource = autosecrets[k].secrets

\* C10: once a key is idle, the Secret matches the AutoSecret: every
\* declared entry carries the digest of its kind, and the controller keeps
\* neither annotation nor value for a name that is not declared.
C10_Convergence ==
  \A k \in Keys :
    Converged(k) =>
      /\ \A name \in DOMAIN autosecrets[k].secrets :
           /\ annotation_name(name) \in DOMAIN objects[k].annotations
           /\ objects[k].annotations[annotation_name(name)].val
                = hash(autosecrets[k].secrets[name])
      /\ \A name \in EntryNames \ DOMAIN autosecrets[k].secrets :
           /\ annotation_name(name) \in DOMAIN objects[k].annotations =>
                objects[k].annotations[annotation_name(name)].owners
                  # {FIELD_MANAGER}
           /\ name \in DOMAIN objects[k].data =>
                objects[k].data[name].owners # {FIELD_MANAGER}

(***************************************************************************)
(* Properties of failed reconciles.  failure[k] describes the reconcile of *)
(* k that returned Err in the step just taken.                             *)
(***************************************************************************)
ControllerError ==
  {MissingObjectKey(".metadata.namespace"), MissingObjectKey(".metadata.name"),
   SecretGetFailed, SecretApplyFailed}

\* C11: whatever the error of a failed reconcile and however many failed in
\* a row before it, error_policy asks for a requeue after 15 seconds, and
\* the key is scheduled with that delay (or is due at once, when a change
\* arrived meanwhile).
C11_UniformRetry ==
  \A k \in Keys :
    failure[k].valid =>
      /\ failure[k].error \in ControllerError
      /\ failure[k].action = RequeueSeconds
      /\ pending[k] \in {0, RequeueSeconds}

\* a failed apply that follows MaxRetries - 1 failures in a row, requeued with
\* the delay of the first
C11_Witness ==
  \E k \in Keys :
    /\ failure[k].valid
    /\ failure[k].error = SecretApplyFailed
    /\ retries[k] = MaxRetries
    /\ pending[k] = RequeueSeconds

\* the runner started the reconcile of k in this step
Started(k) == Due(k) /\ pending'[k] # 0

\* a reconcile of k ended in this step without returning Ok
AttemptFailed(k) ==
  \/ Started(k) /\ runs'[k] = runs[k]
  \/ Len(runs'[k]) < Len(runs[k]) /\ ~last'[k].valid

\* C12: a reconcile of a key that does not return Ok gives an error that
\* error_policy is asked about; the controller keeps running, and the
\* AutoSecret, the Secret, the scheduler entry and the reconciles in flight
\* of every other key are as before.
C12_FailureIsolation ==
  [][\A k \in Keys :
       AttemptFailed(k) =>
         /\ failure'[k].valid
         /\ failure'[k].action = error_policy(failure'[k].error)
         /\ phase' = phase
         /\ \A j \in Keys \ {k} :
              /\ autosecrets'[j] = autosecrets[j]
              /\ objects'[j] = objects[j]
              /\ pending'[j] = pending[j]
              /\ runs'[j] = runs[j]]_vars

\* C13: an AutoSecret without namespace or name never has a reconcile
\* waiting for the API server and never returns Ok; its reconcile returns
\* MissingObjectKey with the field that is missing (the namespace when both
\* are), having made no call to the API server.
C13_MissingIdentity ==
  \A k \in Keys :
    LET metadata == autosecrets[k].metadata
    IN (~metadata.namespace \/ ~metadata.name) =>
         /\ runs[k] = <<>>
         /\ ~last[k].valid
         /\ ~objects[k].exists
         /\ failure[k].valid =>
              /\ failure[k].error =
                   MissingObjectKey(IF ~metadata.namespace
                                    THEN ".metadata.namespace"
                                    ELSE ".metadata.name")
              /\ failure[k].store = <<>>

\* the reconcile of an AutoSecret without a name has just failed, again
C13_Witness ==
  \E k \in Keys :
    /\ autosecrets[k].metadata.namespace
    /\ ~autosecrets[k].metadata.name
    /\ failure[k].valid
    /\ failure[k].error = MissingObjectKey(".metadata.name")
    /\ retries[k] = MaxRetries

(***************************************************************************)
(* Properties of the process.                                              *)
(***************************************************************************)
\* C14: after the shutdown signal no reconcile is started and no change is
\* scheduled; a reconcile in flight ends only by returning, Ok or Err; run()
\* ends only when none is in flight, and nothing is in flight after it
\* ended; and once the signal arrived, run() does end.
C14_Shutdown ==
  /\ [][/\ phase = "stopping" =>
            \A k \in Keys :
              /\ Len(runs'[k]) <= Len(runs[k])
              /\ Len(runs'[k]) < Len(runs[k]) =>
                   last'[k].valid \/ failure'[k].valid
              /\ ChangeEvent(k) => pending'[k] = pending[k]
        /\ (phase' = "terminated" /\ phase # "terminated") =>
            /\ phase = "stopping"
            /\ \A k \in Keys : runs[k] = <<>>
        /\ phase = "terminated" =>
            /\ phase' = "terminated"
            /\ runs' = runs
            /\ pending' = pending]_vars
  /\ (phase = "stopping") ~> (phase = "terminated")

\* after the signal and before run() ends, the reconcile that was in flight
\* has just returned Ok, while the other key is due and is not started
C14_Witness ==
  \E k, j \in Keys :
    /\ j # k
    /\ phase = "stopping"
    /\ last[k].valid
    /\ runs[j] = <<>>
    /\ pending[j] = 0

\* C15: a line on stdin never waits for the channel; the channel never
\* holds more than its one message, so that a line read while the message
\* is not taken yet changes nothing; and the message, once taken, leaves
\* every AutoSecret of the reflector due.
C15_ManualTrigger ==
  /\ [](phase = "running" => ENABLED Press)
  /\ [](reload <= ReloadCapacity)
  /\ [][/\ reload' > reload => reload < ReloadCapacity
        /\ reload' < reload =>
             \A k \in Keys : autosecrets[k].exists => pending'[k] = 0]_vars

\* both keys were reconciled and are due again, and the channel holds a
\* message once more
C15_Witness ==
  /\ reload = ReloadCapacity
  /\ \A k \in Keys : settled[k].valid /\ pending[k] = 0 /\ runs[k] = <<>>

\* the names with a prefixed annotation in the Secret a reconcile read
Tagged(annotations) ==
  {name \in EntryNames \cup ForeignNames :
     annotation_name(name) \in DOMAIN annotations}

\* C17: the names a reconcile removes are the names with a prefixed
\* annotation in the Secret read that the AutoSecret does not declare.
C17_ToRemoveExact ==
  \A k \in Keys :
    Done(k) =>
      /\ ToRemove(k) =
           Tagged(last[k].existing.annotations) \ DOMAIN last[k].resource
      /\ \A name \in ToRemove(k) :
           /\ annotation_name(name) \notin DOMAIN last[k].secret.annotations
           /\ name \notin DOMAIN last[k].secret.data

\* the number of calls of patch_secret among the calls of the API server
Applies(store) == Cardinality({i \in DOMAIN store : store[i] = "apply"})

\* C18: a reconcile that returned Ok called patch_secret once, after
\* get_secret, with a Secret that holds none of the names it removed and
\* every name it wrote; a reconcile that returned Err called it once at
\* most, not at all when the error is MissingObjectKey or SecretGetFailed,
\* and left the Secret as it was.
C18_SingleApply ==
  \A k \in Keys :
    /\ Done(k) =>
         /\ last[k].store = <<"get", "apply">>
         /\ \A name \in ToRemove(k) :
              /\ name \notin DOMAIN last[k].secret.data
              /\ annotation_name(name) \notin DOMAIN last[k].secret.annotations
         /\ \A name \in ToWrite(k) :
              /\ name \in DOMAIN last[k].secret.data
              /\ annotation_name(name) \in DOMAIN last[k].secret.annotations
         /\ \A name \in DOMAIN last[k].secret.data :
              /\ name \in DOMAIN objects[k].data
              /\ objects[k].data[name].val = last[k].secret.data[name]
    /\ failure[k].valid =>
         /\ Applies(failure[k].store) <= 1
         /\ failure[k].error # SecretApplyFailed =>
              Applies(failure[k].store) = 0
         /\ objects[k] = failure[k].before

\* a reconcile that removed "a" and returned Ok
C18_Witness ==
  \E k \in Keys :
    /\ Done(k)
    /\ ToRemove(k) = {"a"}
    /\ last[k].before.data["a"].owners = {FIELD_MANAGER}
    /\ "a" \notin DOMAIN objects[k].data

\* the declared names without the digest of their kind in the Secret read
Outdated(k) ==
  {name \in DOMAIN last[k].resource :
     \/ annotation_name(name) \notin DOMAIN last[k].existing.annotations
     \/ last[k].existing.annotations[annotation_name(name)]
          # hash(last[k].resource[name])}

\* C19: a reconcile calls generate once for every declared name without the
\* digest of its kind in the Secret read, and for no other name; the Secret
\* it submits holds for such a name the digest of its kind and a value of
\* that kind found nowhere in the Secret read, and for every other declared
\* name the annotation and the value that were read.
C19_GenerateOncePerWrite ==
  \A k \in Keys :
    Done(k) =>
      /\ Len(last[k].calls) = Cardinality(ToWrite(k))
      /\ ToWrite(k) = Outdated(k)
      /\ \A name \in DOMAIN last[k].resource :
           LET an == annotation_name(name)
               read == last[k].existing
               secret == last[k].secret
           IN IF name \in ToWrite(k)
              THEN /\ an \in DOMAIN secret.annotations
                   /\ secret.annotations[an] = hash(last[k].resource[name])
                   /\ name \in DOMAIN secret.data
                   /\ secret.data[name][1] = last[k].resource[name]
                   /\ \A other \in DOMAIN read.data :
                        read.data[other] # secret.data[name]
                   /\ \A other \in DOMAIN secret.data \ {name} :
                        secret.data[other] # secret.data[name]
              ELSE /\ SameAt(secret.annotations, read.annotations, an)
                   /\ SameAt(secret.data, read.data, name)

\* a reconcile that generated values for "a" and "b" both, "a" having had
\* the digest of the other kind
C19_Witness ==
  \E k \in Keys :
    /\ Done(k)
    /\ ToWrite(k) = {"a", "b"}
    /\ annotation_name("a") \in DOMAIN last[k].existing.annotations
    /\ "a" \in DOMAIN last[k].existing.data

\* C20: a reconcile that returns Ok leaves the key due only if a change was
\* waiting or its own patch changed the Secret, and never with a delay; a
\* key gets a delay only by a reconcile that returned Err; a key with
\* nothing scheduled becomes due only by a change of its AutoSecret, a
\* write to its Secret or a message of the channel; and a reconcile starts
\* only for a key that is due.
C20_AwaitChange ==
  [][\A k \in Keys :
       /\ last'[k].valid =>
            pending'[k] = IF pending[k] = 0 \/ objects'[k] # objects[k]
                          THEN 0 ELSE NotScheduled
       /\ (pending'[k] > 0 /\ pending[k] <= 0) => failure'[k].valid
       /\ (pending'[k] = 0 /\ pending[k] = NotScheduled) =>
            \/ ChangeEvent(k)
            \/ reload' < reload
            \/ last'[k].valid /\ objects'[k] # objects[k]
       /\ Len(runs'[k]) > Len(runs[k]) => pending[k] = 0]_vars

\* a reconcile returned Ok and changed nothing: the key is idle
C20_Witness ==
  \E k \in Keys :
    /\ Done(k)
    /\ objects[k] = last[k].before
    /\ "a" \in DOMAIN objects[k].data
    /\ pending[k] = NotScheduled
    /\ runs[k] = <<>>

(***************************************************************************)
(* Properties of the Secret a reconcile submits.                           *)
(***************************************************************************)
\* C21: the Secret a reconcile hands to patch_secret has no annotation
\* without the prefix: the annotations without it in the Secret read are
\* left out, the prefixed ones it holds beyond those read are the
\* annotations of the names it generated a value for.
C21_SubmittedPrefixed ==
  \A k \in Keys :
    /\ \A i \in DOMAIN runs[k] :
         runs[k][i].pc = "patch" =>
           Prefixed(runs[k][i].secret.annotations)
             = DOMAIN runs[k][i].secret.annotations
    /\ Done(k) =>
         LET read == last[k].existing.annotations
             submitted == last[k].secret.annotations
         IN /\ Prefixed(submitted) = DOMAIN submitted
            /\ \A key \in DOMAIN read \ Prefixed(read) :
                 key \notin DOMAIN submitted
            /\ DOMAIN submitted \ DOMAIN read
                 \subseteq {annotation_name(name) : name \in ToWrite(k)}
            /\ \A name \in ToWrite(k) :
                 /\ annotation_name(name) \in DOMAIN submitted
                 /\ starts_with(annotation_name(name), ANNOTATION_PREFIX)

\* a reconcile read a Secret with an annotation of another tool and with a
\* prefixed one, and generated a value
C21_Witness ==
  \E k \in Keys :
    /\ Done(k)
    /\ DOMAIN last[k].existing.annotations
         \ Prefixed(last[k].existing.annotations) # {}
    /\ Prefixed(last[k].existing.annotations) # {}
    /\ ToWrite(k) # {}

====
